---------------------------- MODULE Spec2Model ----------------------------
(***************************************************************************)
(* A model of the blockbuster lock-free containers:                        *)
(*   - Blockbuster::Spsc::Queue  (include/blockbuster/spsc/queue.hpp)      *)
(*   - Blockbuster::Mpmc::Queue  (include/blockbuster/mpmc/queue.hpp)      *)
(*   - Blockbuster::Mpmc::HashMap (include/blockbuster/mpmc/hashmap.hpp)   *)
(* Every access to an atomic or to a shared payload is one step of the     *)
(* thread that performs it; thread-local computation is folded into the    *)
(* step that follows the access it depends on.  The three containers are   *)
(* independent, so each has its own specification; the variables of the    *)
(* other two stay at their initial values.                                 *)
(***************************************************************************)
EXTENDS Integers, Sequences, FiniteSets, TLC

VARIABLES
    \* ---- Spsc::Queue
    m_head,          \* std::atomic<size_t> m_head
    m_tail,          \* std::atomic<size_t> m_tail
    spsc_buffer,     \* std::array<T, s_capacity> m_buffer
    sp,              \* the producer thread: position in enqueue and its locals
    sc,              \* the consumer thread: position in dequeue and its locals
    spsc_accepted,   \* history: values whose enqueue returned true, in order
    spsc_returned,   \* history: values returned by dequeue, in order
    spsc_results,    \* history: the result of every enqueue call, in order
    spsc_deqCalls,   \* history: number of dequeue calls invoked so far
    \* ---- Mpmc::Queue
    m_enqueuePos,    \* std::atomic<size_t> m_enqueuePos
    m_dequeuePos,    \* std::atomic<size_t> m_dequeuePos
    mpmc_sequence,   \* m_buffer[i].sequence
    mpmc_data,       \* m_buffer[i].data
    prod,            \* producer threads: position in enqueue and locals
                     \* (retried: the current call went round its loop)
    cons,            \* consumer threads: position in dequeue and locals
    mpmc_issued,     \* number of distinct values handed to producers so far
    mpmc_enqDone,    \* history: values whose enqueue returned true
    mpmc_before,     \* history: per value b, the values whose enqueue had
                     \*          returned true when enqueue(b) was invoked
    mpmc_deqLog,     \* history: values returned by dequeue, in order of return
    mpmc_deqCalls,   \* history: per consumer, whether it ever invoked dequeue
    mpmc_sizer,      \* a thread that calls size(): position and locals
    \* ---- Mpmc::HashMap
    m_table,         \* std::atomic<std::shared_ptr<Table>> m_table: the id of
                     \* the current Table
    tables,          \* the Table objects alive, by id (a Table is destroyed
                     \* when its last shared_ptr goes away)
    thr,             \* threads: position in insert/get/remove and locals
    map_inserted,    \* history: per key, the values v of the insert(key, v)
                     \*          calls that returned true
    map_removeCalls, \* history: per key, whether remove(key) was ever invoked
    map_offered,     \* history: per key, the number of insert(key, .) calls begun
    map_present,     \* history: per key, what the calls that have returned
                     \*          leave for it: the value of the last insert that
                     \*          returned true, NoValue after a remove that
                     \*          returned true
    map_calls        \* number of insert/get/remove calls begun so far

\* what an action of one container leaves alone: the other containers
spscVars == <<m_head, m_tail, spsc_buffer, sp, sc, spsc_accepted,
              spsc_returned, spsc_results, spsc_deqCalls>>
mpmcVars == <<m_enqueuePos, m_dequeuePos, mpmc_sequence, mpmc_data, prod, cons,
              mpmc_issued, mpmc_enqDone, mpmc_before, mpmc_deqLog, mpmc_deqCalls,
              mpmc_sizer>>

mapVars == <<m_table, tables, thr, map_inserted, map_removeCalls, map_calls,
            map_offered, map_present>>

Range(s) == {s[i] : i \in DOMAIN s}

IsPrefix(s, t) == /\ Len(s) <= Len(t)
                  /\ \A i \in 1..Len(s) : s[i] = t[i]

\* T{} : the value-initialised payload of a slot (T = int in the tests).
DefaultT == 0

\* std::size_t counts modulo 2^64; the model wraps at 2^SizeTBits, far above
\* every count, cursor and capacity it reaches.
SizeTBits == 16
AsSizeT(n) == n % (2^SizeTBits)

(***************************************************************************)
(*                              Spsc::Queue                                *)
(***************************************************************************)

\* template parameter Capacity of Spsc::Queue (a power of two).
SpscCapacity == 4

\* Bounds of the SPSC model.
SpscMaxEnqueueCalls == 6   \* enqueue calls the producer makes
SpscMaxDequeueCalls == 6   \* dequeue calls the consumer makes

\* The payload of the n-th enqueue call is n (the tests enqueue a running
\* counter): the queue never inspects a payload, so distinct tags tell every
\* loss, duplication and reordering apart.
SpscValues == 1..SpscMaxEnqueueCalls
SpscSlots == 0..(SpscCapacity - 1)

\* index & (s_capacity - 1), for s_capacity a power of two and size_t index.
SpscWrap(index) == index % SpscCapacity

\* Mutant of SpscEnqueueSeesFull: the tail itself, not the slot after it, is
\* compared with the head.
SpscEnqueueSeesFullAtTail(nextTail, head) == SpscWrap(nextTail - 1) = head

\* the full test of enqueue: nextTail == m_head.load()
SpscEnqueueSeesFull(nextTail, head) == nextTail = head

\* Mutant of SpscDequeueSeesEmpty: the slot after the head is compared with
\* the tail.
SpscDequeueSeesEmptyAhead(currHead, tail) == SpscWrap(currHead + 1) = tail

\* the empty test of dequeue: currHead == m_tail.load()
SpscDequeueSeesEmpty(currHead, tail) == currHead = tail

\* Mutant of SpscNextHead: the head is moved past a slot the consumer has
\* not read.
SpscNextHeadSkips(currHead) == SpscWrap(currHead + 2)

\* the cursor dequeue publishes: wrap(currHead + 1)
SpscNextHead(currHead) == SpscWrap(currHead + 1)

\* empty(), full() and size() evaluated on one state.
SpscEmpty == m_head = m_tail
SpscFull == SpscWrap(m_tail + 1) = m_head
\* A size() that forgets the mask: the plain size_t difference of the
\* cursors.
SpscSizeUnmasked(tail, head) == AsSizeT(tail - head)

\* capacity(), line 100-103: return s_capacity, the template Capacity.
SpscCapacityCall == SpscCapacity

\* size(), line 113, on the two cursor values it loaded.
SpscSizeOf(tail, head) == SpscWrap(tail - head)
SpscSize == SpscSizeOf(m_tail, m_head)

SpscInit ==
    /\ m_head = 0
    /\ m_tail = 0
    /\ spsc_buffer = [i \in SpscSlots |-> DefaultT]
    /\ sp = [pc |-> "idle", item |-> DefaultT, currTail |-> 0, nextTail |-> 0]
    /\ sc = [pc |-> "idle", currHead |-> 0]
    /\ spsc_accepted = <<>>
    /\ spsc_returned = <<>>
    /\ spsc_results = <<>>
    /\ spsc_deqCalls = 0

\* enqueue, line 43-44: currTail = m_tail.load(); nextTail = wrap(currTail + 1)
SpscEnqueueLoadTail ==
    /\ sp.pc = "idle"
    /\ Len(spsc_results) < SpscMaxEnqueueCalls
    /\ sp' = [pc |-> "check", item |-> Len(spsc_results) + 1,
              currTail |-> m_tail, nextTail |-> SpscWrap(m_tail + 1)]
    /\ UNCHANGED <<mpmcVars, mapVars, m_head, m_tail, spsc_buffer, sc, spsc_accepted,
                   spsc_returned, spsc_results, spsc_deqCalls>>

\* enqueue, line 46-48: if (nextTail == m_head.load()) return false
SpscEnqueueCheckHead ==
    /\ sp.pc = "check"
    /\ IF SpscEnqueueSeesFull(sp.nextTail, m_head)
          THEN /\ sp' = [sp EXCEPT !.pc = "idle"]
               /\ spsc_results' = Append(spsc_results, FALSE)
          ELSE /\ sp' = [sp EXCEPT !.pc = "write"]
               /\ UNCHANGED spsc_results
    /\ UNCHANGED <<mpmcVars, mapVars, m_head, m_tail, spsc_buffer, sc, spsc_accepted,
                   spsc_returned, spsc_deqCalls>>

\* enqueue, line 50: m_buffer[currTail] = item
SpscEnqueueWrite ==
    /\ sp.pc = "write"
    /\ spsc_buffer' = [spsc_buffer EXCEPT ![sp.currTail] = sp.item]
    /\ sp' = [sp EXCEPT !.pc = "store"]
    /\ UNCHANGED <<mpmcVars, mapVars, m_head, m_tail, sc, spsc_accepted, spsc_returned,
                   spsc_results, spsc_deqCalls>>

\* enqueue, line 51-52: m_tail.store(nextTail); return true
SpscEnqueueStoreTail ==
    /\ sp.pc = "store"
    /\ m_tail' = sp.nextTail
    /\ sp' = [sp EXCEPT !.pc = "idle"]
    /\ spsc_accepted' = Append(spsc_accepted, sp.item)
    /\ spsc_results' = Append(spsc_results, TRUE)
    /\ UNCHANGED <<mpmcVars, mapVars, m_head, spsc_buffer, sc, spsc_returned, spsc_deqCalls>>

\* dequeue, line 62: currHead = m_head.load()
SpscDequeueLoadHead ==
    /\ sc.pc = "idle"
    /\ spsc_deqCalls < SpscMaxDequeueCalls
    /\ sc' = [pc |-> "check", currHead |-> m_head]
    /\ spsc_deqCalls' = spsc_deqCalls + 1
    /\ UNCHANGED <<mpmcVars, mapVars, m_head, m_tail, spsc_buffer, sp, spsc_accepted,
                   spsc_returned, spsc_results>>

\* dequeue, line 64-66: if (currHead == m_tail.load()) return nullopt
SpscDequeueCheckTail ==
    /\ sc.pc = "check"
    /\ sc' = [sc EXCEPT !.pc = IF SpscDequeueSeesEmpty(sc.currHead, m_tail)
                                  THEN "idle" ELSE "read"]
    /\ UNCHANGED <<mpmcVars, mapVars, m_head, m_tail, spsc_buffer, sp, spsc_accepted,
                   spsc_returned, spsc_results, spsc_deqCalls>>

\* dequeue, line 68: item { std::move(m_buffer[currHead]) }
\* (moving an int out of the slot leaves the slot as it was)
SpscDequeueRead ==
    /\ sc.pc = "read"
    /\ sc' = [pc |-> "store", currHead |-> sc.currHead,
              item |-> spsc_buffer[sc.currHead]]
    /\ UNCHANGED <<mpmcVars, mapVars, m_head, m_tail, spsc_buffer, sp, spsc_accepted,
                   spsc_returned, spsc_results, spsc_deqCalls>>

\* dequeue, line 69-70: m_head.store(wrap(currHead + 1)); return item
SpscDequeueStoreHead ==
    /\ sc.pc = "store"
    /\ m_head' = SpscNextHead(sc.currHead)
    /\ spsc_returned' = Append(spsc_returned, sc.item)
    /\ sc' = [pc |-> "idle", currHead |-> sc.currHead]
    /\ UNCHANGED <<mpmcVars, mapVars, m_tail, spsc_buffer, sp, spsc_accepted, spsc_results,
                   spsc_deqCalls>>

SpscNext ==
    \/ SpscEnqueueLoadTail
    \/ SpscEnqueueCheckHead
    \/ SpscEnqueueWrite
    \/ SpscEnqueueStoreTail
    \/ SpscDequeueLoadHead
    \/ SpscDequeueCheckTail
    \/ SpscDequeueRead
    \/ SpscDequeueStoreHead

(***************************************************************************)
(*                              Mpmc::Queue                                *)
(***************************************************************************)

\* template parameter Capacity of Mpmc::Queue (a power of two).
MpmcCapacity == 2

\* Bound of the MPMC model: the number of pairwise distinct values the
\* producers enqueue between them (more than the capacity, so that slots are
\* reused).  Two producer threads and two consumer threads run concurrently.
MpmcMaxValues == 3

Producers == {"p1", "p2"}
Consumers == {"c1", "c2"}
MpmcSlots == 0..(MpmcCapacity - 1)

\* The values enqueued: pairwise distinct and different from T{}.
MpmcValues == 1..MpmcMaxValues

\* index & (s_capacity - 1), for s_capacity a power of two and size_t index.
MpmcWrap(index) == index % MpmcCapacity

\* Mutant of EnqueueDif: a slot whose sequence lags behind pos (a full
\* queue) is taken for a writable one.
EnqueueDifIgnoresFull(seq, pos) == IF seq < pos THEN 0 ELSE seq - pos

\* enqueue: dif = (intptr_t)seq - (intptr_t)pos
EnqueueDif(seq, pos) == seq - pos

\* Mutant of DequeueDif: the sequence is compared with pos, not pos + 1.
DequeueDifOffByOne(seq, pos) == seq - pos

\* dequeue: dif = (intptr_t)seq - (intptr_t)(pos + 1)
DequeueDif(seq, pos) == seq - (pos + 1)

\* Mutant of CursorCasSucceeds: the cursor is advanced by a plain store,
\* whatever value it holds.
CursorCasBlind(cursor, expected) == TRUE

\* compare_exchange_weak(pos, pos + 1) on a cursor, line 55 and 86, can
\* succeed only when the cursor still holds the value the thread loaded.
CursorCasSucceeds(cursor, expected) == cursor = expected

\* Mutant of DequeuePublishedSeq: the consumer hands the slot back for the
\* position it has just read.
DequeueRepublishes(pos) == pos

\* Mutant of EnqueuePublishedSeq: the producer marks the slot writable for
\* the next lap instead of readable.
EnqueuePublishesWritable(pos) == pos + MpmcCapacity

\* enqueue publishes sequence = pos + 1
EnqueuePublishedSeq(pos) == pos + 1

\* dequeue publishes sequence = pos + s_capacity
DequeuePublishedSeq(pos) == pos + MpmcCapacity

\* capacity(), line 128-131: return s_capacity, the template Capacity.
MpmcCapacityCall == MpmcCapacity

\* empty(), full() and size() evaluated on one state (size_t arithmetic; the
\* cursors of this model stay far below the width of size_t and
\* m_enqueuePos >= m_dequeuePos is an invariant, so no wrap is involved).
MpmcSize == m_enqueuePos - m_dequeuePos

\* A size() that subtracts the cursors the wrong way round.
MpmcSizeReversed(enqueuePos, dequeuePos) == AsSizeT(dequeuePos - enqueuePos)

\* size(), line 141, on the two cursor values it loaded: an unsigned
\* subtraction.
MpmcSizeOf(enqueuePos, dequeuePos) == AsSizeT(enqueuePos - dequeuePos)

\* Slots that hold a published value (sequence = position + 1) at a position
\* the dequeue cursor, standing at dequeuePos, has not passed: the values
\* whose enqueue has returned true and that no dequeue has taken.
MpmcUnclaimedFrom(dequeuePos) ==
    {i \in MpmcSlots : /\ mpmc_sequence[i] - 1 >= dequeuePos
                       /\ MpmcWrap(mpmc_sequence[i] - 1) = i}

\* The thread that calls size() between calls.
IdleSizer == [pc |-> "idle", first |-> "none", enqueuePos |-> 0,
              dequeuePos |-> 0, seenEnqueuePos |-> 0, seenDequeuePos |-> 0,
              result |-> 0, still |-> TRUE]
MpmcEmpty == MpmcSize <= 0
MpmcFull == MpmcSize >= MpmcCapacity

MpmcInit ==
    /\ m_enqueuePos = 0
    /\ m_dequeuePos = 0
    /\ mpmc_sequence = [i \in MpmcSlots |-> i]
    /\ mpmc_data = [i \in MpmcSlots |-> DefaultT]
    /\ prod = [p \in Producers |->
                 [pc |-> "idle", pos |-> 0, item |-> DefaultT,
                  pending |-> FALSE, retried |-> FALSE]]
    /\ cons = [c \in Consumers |-> [pc |-> "idle", pos |-> 0, result |-> DefaultT,
                                    sawEmpty |-> FALSE]]
    /\ mpmc_issued = 0
    /\ mpmc_enqDone = {}
    /\ mpmc_before = [v \in MpmcValues |-> {}]
    /\ mpmc_deqLog = <<>>
    /\ mpmc_deqCalls = [c \in Consumers |-> FALSE]
    /\ mpmc_sizer = IdleSizer

\* enqueue, line 47: pos = m_enqueuePos.load().  The producer offers a fresh
\* value, or again the value whose enqueue returned false (the tests retry
\* `while (!queue.enqueue(value))`).
EnqueueLoadPos(p) ==
    /\ prod[p].pc = "idle"
    /\ prod[p].pending \/ mpmc_issued < MpmcMaxValues
    /\ LET v == IF prod[p].pending THEN prod[p].item ELSE mpmc_issued + 1 IN
          /\ prod' = [prod EXCEPT ![p].pc = "seq", ![p].pos = m_enqueuePos,
                                  ![p].item = v, ![p].pending = TRUE,
                                  ![p].retried = FALSE]
          /\ mpmc_issued' = IF prod[p].pending THEN mpmc_issued ELSE mpmc_issued + 1
          /\ mpmc_before' = [mpmc_before EXCEPT ![v] = mpmc_enqDone]
    /\ UNCHANGED <<spscVars, mapVars, mpmc_sizer, m_enqueuePos, m_dequeuePos, mpmc_sequence,
                   mpmc_data, cons, mpmc_enqDone, mpmc_deqLog, mpmc_deqCalls>>

\* enqueue, line 50-62: seq = cell->sequence.load(); dif; the three branches
EnqueueLoadSeq(p) ==
    /\ prod[p].pc = "seq"
    /\ LET dif == EnqueueDif(mpmc_sequence[MpmcWrap(prod[p].pos)], prod[p].pos) IN
          IF dif = 0
             THEN prod' = [prod EXCEPT ![p].pc = "cas"]
             ELSE IF dif < 0
                     THEN prod' = [prod EXCEPT ![p].pc = "idle"]   \* return false
                     ELSE prod' = [prod EXCEPT ![p].pc = "reload"]
    /\ UNCHANGED <<spscVars, mapVars, mpmc_sizer, mpmc_issued, m_enqueuePos, m_dequeuePos, mpmc_sequence, mpmc_data, cons,
                   mpmc_enqDone, mpmc_before, mpmc_deqLog, mpmc_deqCalls>>

\* enqueue, line 55: m_enqueuePos.compare_exchange_weak(pos, pos + 1)
\* succeeds: the cursor advances and the producer leaves the loop.
EnqueueCasSucceed(p) ==
    /\ prod[p].pc = "cas"
    /\ CursorCasSucceeds(m_enqueuePos, prod[p].pos)
    /\ m_enqueuePos' = prod[p].pos + 1
    /\ prod' = [prod EXCEPT ![p].pc = "write"]
    /\ UNCHANGED <<spscVars, mapVars, mpmc_sizer, mpmc_issued, m_dequeuePos, mpmc_sequence, mpmc_data, cons, mpmc_enqDone,
                   mpmc_before, mpmc_deqLog, mpmc_deqCalls>>

\* enqueue, line 55: the compare_exchange_weak fails - because the cursor
\* moved, or spuriously - and leaves the cursor's value in pos; loop again.
EnqueueCasFail(p) ==
    /\ prod[p].pc = "cas"
    /\ prod' = [prod EXCEPT ![p].pc = "seq", ![p].pos = m_enqueuePos,
                            ![p].retried = TRUE]
    /\ UNCHANGED <<spscVars, mapVars, mpmc_sizer, mpmc_issued, m_enqueuePos, m_dequeuePos, mpmc_sequence, mpmc_data, cons,
                   mpmc_enqDone, mpmc_before, mpmc_deqLog,
                   mpmc_deqCalls>>

\* enqueue, line 61: pos = m_enqueuePos.load()
EnqueueReloadPos(p) ==
    /\ prod[p].pc = "reload"
    /\ prod' = [prod EXCEPT ![p].pc = "seq", ![p].pos = m_enqueuePos,
                            ![p].retried = TRUE]
    /\ UNCHANGED <<spscVars, mapVars, mpmc_sizer, mpmc_issued, m_enqueuePos, m_dequeuePos, mpmc_sequence, mpmc_data, cons,
                   mpmc_enqDone, mpmc_before, mpmc_deqLog,
                   mpmc_deqCalls>>

\* enqueue, line 65: cell->data = item
EnqueueWriteData(p) ==
    /\ prod[p].pc = "write"
    /\ mpmc_data' = [mpmc_data EXCEPT ![MpmcWrap(prod[p].pos)] = prod[p].item]
    /\ prod' = [prod EXCEPT ![p].pc = "publish"]
    /\ UNCHANGED <<spscVars, mapVars, mpmc_sizer, mpmc_issued, m_enqueuePos, m_dequeuePos, mpmc_sequence, cons,
                   mpmc_enqDone, mpmc_before, mpmc_deqLog,
                   mpmc_deqCalls>>

\* enqueue, line 66-67: cell->sequence.store(pos + 1); return true
EnqueuePublish(p) ==
    /\ prod[p].pc = "publish"
    /\ mpmc_sequence' = [mpmc_sequence EXCEPT ![MpmcWrap(prod[p].pos)] =
                             EnqueuePublishedSeq(prod[p].pos)]
    /\ prod' = [prod EXCEPT ![p].pc = "idle", ![p].pending = FALSE]
    /\ mpmc_enqDone' = mpmc_enqDone \cup {prod[p].item}
    /\ UNCHANGED <<spscVars, mapVars, mpmc_sizer, mpmc_issued, m_enqueuePos, m_dequeuePos, mpmc_data, cons, mpmc_before,
                   mpmc_deqLog, mpmc_deqCalls>>

\* dequeue, line 78: pos = m_dequeuePos.load()
\* sawEmpty is history: at some moment of the call so far no completed
\* enqueue's value was waiting to be taken.
DequeueLoadPos(c) ==
    /\ cons[c].pc = "idle"
    /\ cons' = [cons EXCEPT ![c].pc = "seq", ![c].pos = m_dequeuePos,
                            ![c].sawEmpty = MpmcUnclaimedFrom(m_dequeuePos) = {}]
    /\ mpmc_deqCalls' = [mpmc_deqCalls EXCEPT ![c] = TRUE]
    /\ UNCHANGED <<spscVars, mapVars, mpmc_sizer, mpmc_issued, m_enqueuePos, m_dequeuePos, mpmc_sequence, mpmc_data, prod,
                   mpmc_enqDone, mpmc_before, mpmc_deqLog>>

\* dequeue, line 81-93: seq = cell->sequence.load(); dif; the three branches
DequeueLoadSeq(c) ==
    /\ cons[c].pc = "seq"
    /\ LET dif == DequeueDif(mpmc_sequence[MpmcWrap(cons[c].pos)], cons[c].pos) IN
          cons' = [cons EXCEPT ![c].pc = IF dif = 0 THEN "cas"
                                         ELSE IF dif < 0 THEN "idle"  \* nullopt
                                         ELSE "reload",
                               ![c].sawEmpty = IF dif < 0 THEN FALSE ELSE @]
    /\ UNCHANGED <<spscVars, mapVars, mpmc_sizer, mpmc_issued, m_enqueuePos, m_dequeuePos, mpmc_sequence, mpmc_data, prod,
                   mpmc_enqDone, mpmc_before, mpmc_deqLog,
                   mpmc_deqCalls>>

\* dequeue, line 86: m_dequeuePos.compare_exchange_weak(pos, pos + 1) succeeds
DequeueCasSucceed(c) ==
    /\ cons[c].pc = "cas"
    /\ CursorCasSucceeds(m_dequeuePos, cons[c].pos)
    /\ m_dequeuePos' = cons[c].pos + 1
    /\ cons' = [d \in Consumers |->
                  IF d = c
                     THEN [cons[c] EXCEPT !.pc = "read", !.sawEmpty = FALSE]
                  ELSE IF cons[d].pc \in {"seq", "cas", "reload"}
                     THEN [cons[d] EXCEPT !.sawEmpty =
                             @ \/ MpmcUnclaimedFrom(cons[c].pos + 1) = {}]
                  ELSE cons[d]]
    /\ UNCHANGED <<spscVars, mapVars, mpmc_sizer, mpmc_issued, m_enqueuePos, mpmc_sequence, mpmc_data, prod, mpmc_enqDone,
                   mpmc_before, mpmc_deqLog, mpmc_deqCalls>>

\* dequeue, line 86: the compare_exchange_weak fails (the cursor moved, or
\* spuriously) and leaves the cursor's value in pos; loop again.
DequeueCasFail(c) ==
    /\ cons[c].pc = "cas"
    /\ cons' = [cons EXCEPT ![c].pc = "seq", ![c].pos = m_dequeuePos]
    /\ UNCHANGED <<spscVars, mapVars, mpmc_sizer, mpmc_issued, m_enqueuePos, m_dequeuePos, mpmc_sequence, mpmc_data, prod,
                   mpmc_enqDone, mpmc_before, mpmc_deqLog,
                   mpmc_deqCalls>>

\* dequeue, line 92: pos = m_dequeuePos.load()
DequeueReloadPos(c) ==
    /\ cons[c].pc = "reload"
    /\ cons' = [cons EXCEPT ![c].pc = "seq", ![c].pos = m_dequeuePos]
    /\ UNCHANGED <<spscVars, mapVars, mpmc_sizer, mpmc_issued, m_enqueuePos, m_dequeuePos, mpmc_sequence, mpmc_data, prod,
                   mpmc_enqDone, mpmc_before, mpmc_deqLog,
                   mpmc_deqCalls>>

\* dequeue, line 96: result { std::move(cell->data) }
\* (moving an int out of the cell leaves the cell as it was)
DequeueReadData(c) ==
    /\ cons[c].pc = "read"
    /\ cons' = [cons EXCEPT ![c].pc = "publish",
                            ![c].result = mpmc_data[MpmcWrap(cons[c].pos)]]
    /\ UNCHANGED <<spscVars, mapVars, mpmc_sizer, mpmc_issued, m_enqueuePos, m_dequeuePos, mpmc_sequence, mpmc_data, prod,
                   mpmc_enqDone, mpmc_before, mpmc_deqLog,
                   mpmc_deqCalls>>

\* dequeue, line 97-98: cell->sequence.store(pos + s_capacity); return result
DequeuePublish(c) ==
    /\ cons[c].pc = "publish"
    /\ mpmc_sequence' = [mpmc_sequence EXCEPT ![MpmcWrap(cons[c].pos)] =
                             DequeuePublishedSeq(cons[c].pos)]
    /\ mpmc_deqLog' = Append(mpmc_deqLog, cons[c].result)
    /\ cons' = [cons EXCEPT ![c].pc = "idle"]
    /\ UNCHANGED <<spscVars, mapVars, mpmc_sizer, mpmc_issued, m_enqueuePos, m_dequeuePos, mpmc_data, prod, mpmc_enqDone,
                   mpmc_before, mpmc_deqCalls>>

\* A step of producer p in enqueue.
EnqueueStep(p) ==
    \/ EnqueueLoadPos(p)
    \/ EnqueueLoadSeq(p)
    \/ EnqueueCasSucceed(p)
    \/ EnqueueCasFail(p)
    \/ EnqueueReloadPos(p)
    \/ EnqueueWriteData(p)
    \/ EnqueuePublish(p)

\* A step of consumer c in dequeue.
DequeueStep(c) ==
    \/ DequeueLoadPos(c)
    \/ DequeueLoadSeq(c)
    \/ DequeueCasSucceed(c)
    \/ DequeueCasFail(c)
    \/ DequeueReloadPos(c)
    \/ DequeueReadData(c)
    \/ DequeuePublish(c)

MpmcNext ==
    \/ \E p \in Producers : EnqueueStep(p)
    \/ \E c \in Consumers : DequeueStep(c)

\* size(), line 141: the first of the two cursor loads.  The operands of the
\* subtraction are unsequenced, so either cursor may be loaded first.
\* seenEnqueuePos, seenDequeuePos are history: both cursors at this load.
SizeLoadFirst ==
    /\ mpmc_sizer.pc \in {"idle", "done"}
    /\ \E first \in {"enqueuePos", "dequeuePos"} :
          mpmc_sizer' =
             [IdleSizer EXCEPT
                 !.pc = "second", !.first = first,
                 !.enqueuePos = IF first = "enqueuePos" THEN m_enqueuePos ELSE 0,
                 !.dequeuePos = IF first = "dequeuePos" THEN m_dequeuePos ELSE 0,
                 !.seenEnqueuePos = m_enqueuePos,
                 !.seenDequeuePos = m_dequeuePos]
    /\ UNCHANGED <<spscVars, mapVars, m_enqueuePos, m_dequeuePos, mpmc_sequence,
                   mpmc_data, prod, cons, mpmc_issued, mpmc_enqDone,
                   mpmc_before, mpmc_deqLog, mpmc_deqCalls>>

\* size(), line 141: the other cursor load, the subtraction and the return.
\* still is history: no cursor has moved since the first load.
SizeLoadSecond ==
    /\ mpmc_sizer.pc = "second"
    /\ LET enqueuePos == IF mpmc_sizer.first = "enqueuePos"
                            THEN mpmc_sizer.enqueuePos ELSE m_enqueuePos
           dequeuePos == IF mpmc_sizer.first = "dequeuePos"
                            THEN mpmc_sizer.dequeuePos ELSE m_dequeuePos
       IN mpmc_sizer' =
             [IdleSizer EXCEPT
                 !.pc = "done", !.first = mpmc_sizer.first,
                 !.result = MpmcSizeOf(enqueuePos, dequeuePos),
                 !.still = /\ m_enqueuePos = mpmc_sizer.seenEnqueuePos
                           /\ m_dequeuePos = mpmc_sizer.seenDequeuePos]
    /\ UNCHANGED <<spscVars, mapVars, m_enqueuePos, m_dequeuePos, mpmc_sequence,
                   mpmc_data, prod, cons, mpmc_issued, mpmc_enqDone,
                   mpmc_before, mpmc_deqLog, mpmc_deqCalls>>

\* The producers, the consumers and a thread that calls size().  The
\* producers enqueue as many values between them as the queue has slots:
\* enough to fill it, and to move either cursor between the two loads of a
\* size() call.
SizeEnqueueStep(p) ==
    /\ prod[p].pc = "idle" => mpmc_issued < MpmcCapacity
    /\ EnqueueStep(p)

MpmcNextSize ==
    \/ \E p \in Producers : SizeEnqueueStep(p)
    \/ \E c \in Consumers : DequeueStep(c)
    \/ SizeLoadFirst
    \/ SizeLoadSecond

(***************************************************************************)
(*                             Mpmc::HashMap                               *)
(*                                                                         *)
(* hashmap.hpp spells the enumerators of CellState in lower case and uses  *)
(* them capitalised, and declares the `expected` of its compare-exchanges  *)
(* const; the model reads both the way compare_exchange_strong works: the  *)
(* four cell states, and `expected` holding the state found when the       *)
(* exchange fails.                                                         *)
(***************************************************************************)

\* template parameter InitialCapacity of HashMap (a power of two).
InitialCapacity == 2

\* Bounds of the hash map model.
MaxDoublings == 2   \* resize() is followed while the new capacity is at most
                    \* InitialCapacity * 2^MaxDoublings
MaxKey == 3         \* keys are 1..MaxKey
MapMaxCalls == 5    \* insert/get/remove calls made in a run, all threads

MaxCapacity == InitialCapacity * 2^MaxDoublings
Keys == 1..MaxKey
\* The value of a call insert(key, value) is the number of insert calls made
\* for that key so far: the map never inspects a value, so this tag tells the
\* values offered for one key apart.
Values == 1..MapMaxCalls
NoValue == 0        \* std::nullopt / Value {}
NoKey == 0          \* Key {}

Threads == {"t1", "t2"}

\* A Table is held by m_table and by at most three locals of each thread
\* (table, oldTable, newTable), so these ids never run out.
TableIds == 1..(1 + 3 * Cardinality(Threads))
NoTableId == 0

\* struct Cell: state { CellState::Empty }, key {}, value {}
EmptyCell == [state |-> "Empty", key |-> NoKey, value |-> NoValue]

\* Table::Table(capacity): m_capacity(capacity), m_buffer(capacity), m_size 0
NewTable(capacity) ==
    [m_capacity |-> capacity,
     m_buffer |-> [i \in 0..(capacity - 1) |-> EmptyCell],
     m_size |-> 0]

\* The slot of a Table id that names no live Table.
NoTable == [m_capacity |-> 0, m_buffer |-> <<>>, m_size |-> 0]

\* Table::wrap: index & (m_capacity - 1)
TableWrap(tbl, index) == index % tbl.m_capacity

\* Table::hash: std::hash<Key>{}(key) & (m_capacity - 1); std::hash of an
\* integer key is the key itself.
TableHash(tbl, key) == key % tbl.m_capacity

\* The cell index of probe i for key: wrap(index + i)
ProbeCell(tbl, key, i) == TableWrap(tbl, TableHash(tbl, key) + i)

\* m_size is a size_t: a counter decremented below zero wraps to a value
\* above every capacity.  The model keeps the mathematical count and reads
\* a negative count as that huge unsigned value.
\* HashMap::insert, line 54: table->m_size.load() > table->m_capacity / 2
SizeExceedsHalf(tbl) == tbl.m_size < 0 \/ tbl.m_size > tbl.m_capacity \div 2

\* The capacity of the Table resize() makes: oldTable->m_capacity * 2
ResizedCapacity(capacity) == capacity * 2

\* Table::insert run to completion on a Table no other thread can reach
\* (resize fills newTable before publishing it): the Table afterwards.
RECURSIVE TableInsertFrom(_, _, _, _)
TableInsertFrom(tbl, key, value, i) ==
    IF i >= tbl.m_capacity THEN tbl
    ELSE LET c == ProbeCell(tbl, key, i) IN
         IF tbl.m_buffer[c].state = "Empty"
            THEN [tbl EXCEPT !.m_buffer[c] =
                                 [state |-> "Full", key |-> key, value |-> value],
                             !.m_size = @ + 1]
         ELSE IF tbl.m_buffer[c].state = "Full" /\ tbl.m_buffer[c].key = key
            THEN tbl
         ELSE TableInsertFrom(tbl, key, value, i + 1)

TableInsert(tbl, key, value) == TableInsertFrom(tbl, key, value, 0)

\* Table::get run to completion with no other thread running.
RECURSIVE TableGetFrom(_, _, _)
TableGetFrom(tbl, key, i) ==
    IF i >= tbl.m_capacity THEN NoValue
    ELSE LET cell == tbl.m_buffer[ProbeCell(tbl, key, i)] IN
         IF cell.state = "Full"
            THEN IF cell.key = key THEN cell.value
                 ELSE TableGetFrom(tbl, key, i + 1)
         ELSE IF cell.state = "Empty" THEN NoValue
         ELSE TableGetFrom(tbl, key, i + 1)

\* HashMap::get, capacity and size evaluated on one state.
MapGet(key) == TableGetFrom(tables[m_table], key, 0)
MapCapacity == tables[m_table].m_capacity
MapSize == tables[m_table].m_size

\* HashMap::size as the caller reads it: the counter as an unsigned integer.
MapSizeUnsigned == AsSizeT(MapSize)

\* A thread between calls: pc "idle" before its first call, pc "done" after a
\* call, with the call's result in ok (insert, remove) or got (get).
\* expect is history: what the map held for the key when the call began.
\* was is history: map_present of the key when the call began.
IdleThread == [pc |-> "idle", op |-> "none", key |-> NoKey, value |-> NoValue,
               table |-> NoTableId, i |-> 0, oldTable |-> NoTableId,
               newTable |-> NoTableId, scan |-> 0, ok |-> FALSE,
               got |-> NoValue, expect |-> {}, was |-> NoValue]

\* The Tables a thread's locals hold.
HeldBy(th) == {th.table, th.oldTable, th.newTable} \ {NoTableId}

\* shared_ptr ownership: the Tables that neither m_table nor a local of some
\* thread holds are destroyed.
Collect(tbls, current, threads) ==
    [id \in TableIds |->
        IF id = current \/ \E t \in Threads : id \in HeldBy(threads[t])
           THEN tbls[id] ELSE NoTable]

\* std::make_shared<Table>: the id of the new Table.
FreshTableId ==
    CHOOSE id \in TableIds :
       /\ tables[id] = NoTable
       /\ \A j \in TableIds : tables[j] = NoTable => id <= j

MapInit ==
    /\ m_table = 1
    /\ tables = [id \in TableIds |->
                    IF id = 1 THEN NewTable(InitialCapacity) ELSE NoTable]
    /\ thr = [t \in Threads |-> IdleThread]
    /\ map_inserted = [k \in Keys |-> {}]
    /\ map_removeCalls = [k \in Keys |-> FALSE]
    /\ map_calls = 0
    /\ map_offered = [k \in Keys |-> 0]
    /\ map_present = [k \in Keys |-> NoValue]

\* Table::insert, line 128 and 145: the next probe of insert's loop, or
\* false after the last cell.
InsertNextProbe(th, tbl) ==
    IF th.i + 1 < tbl.m_capacity
       THEN [th EXCEPT !.i = th.i + 1, !.pc = "ins_probe"]
       ELSE [th EXCEPT !.pc = "ins_chk"]


\* One step of thread t: its locals become th, the Tables tbls and the
\* current Table current; Tables nobody holds any more are destroyed.
MapStep(t, th, tbls, current) ==
    LET threads == [thr EXCEPT ![t] = th] IN
       /\ thr' = threads
       /\ m_table' = current
       /\ tables' = Collect(tbls, current, threads)

\* The result of a call: the thread rests, and the shared_ptr the call held
\* is gone.
Returned(th, ok, got) ==
    [IdleThread EXCEPT !.pc = "done", !.op = th.op, !.key = th.key,
                       !.value = th.value, !.ok = ok, !.got = got,
                       !.expect = th.expect, !.was = th.was]

Resting(th) == th.pc \in {"idle", "done"}

\* A call of insert(key, value) begins (line 45) and reaches its first
\* access to shared memory:
\* HashMap::insert, line 48: table = m_table.load()
\* Table::insert, line 126: index = hash(key); i = 0
\* expect: the value the key is present with when the call begins, if any.
InsertCall(t) ==
    /\ Resting(thr[t])
    /\ map_calls < MapMaxCalls
    /\ map_calls' = map_calls + 1
    /\ \E k \in Keys :
          /\ MapStep(t, [IdleThread EXCEPT !.pc = "ins_probe", !.op = "insert",
                                        !.key = k, !.value = map_offered[k] + 1,
                                        !.table = m_table,
                                        !.expect = {MapGet(k)} \ {NoValue},
                                        !.was = map_present[k]],
                  tables, m_table)
          /\ map_offered' = [map_offered EXCEPT ![k] = @ + 1]
    /\ UNCHANGED <<spscVars, mpmcVars, map_inserted, map_removeCalls,
                   map_present>>

\* HashMap::insert, line 47-48, a further round of the while (true) loop:
\* table = m_table.load(); Table::insert, line 126: index = hash(key); i = 0
InsertLoadTable(t) ==
    /\ thr[t].pc = "ins_load"
    /\ MapStep(t, [thr[t] EXCEPT !.pc = "ins_probe", !.table = m_table, !.i = 0],
               tables, m_table)
    /\ UNCHANGED <<spscVars, mpmcVars, map_inserted, map_removeCalls, map_calls,
                   map_offered, map_present>>

\* Table::insert, line 129-143: one probe.  The compare_exchange_strong
\* Empty -> Writing; when it fails, `expected == Full && cell.key == key`
\* returns false, anything else goes to the next cell; line 145 returns
\* false after the last cell.
InsertProbe(t) ==
    /\ thr[t].pc = "ins_probe"
    /\ LET th == thr[t]
           tbl == tables[th.table]
           c == ProbeCell(tbl, th.key, th.i)
           cell == tbl.m_buffer[c]
       IN IF cell.state = "Empty"
             THEN MapStep(t, [th EXCEPT !.pc = "ins_write"],
                          [tables EXCEPT ![th.table].m_buffer[c].state = "Writing"],
                          m_table)
          ELSE IF cell.state = "Full" /\ cell.key = th.key
             THEN MapStep(t, [th EXCEPT !.pc = "ins_chk"], tables, m_table)
          ELSE MapStep(t, InsertNextProbe(th, tbl), tables, m_table)
    /\ UNCHANGED <<spscVars, mpmcVars, map_inserted, map_removeCalls, map_calls,
                   map_offered, map_present>>

\* Table::insert, line 133-135: cell.key = key; cell.value = value;
\* cell.state.store(CellState::Full).  No thread reads the key or the value
\* of a cell it has not seen Full, so the two plain writes take effect with
\* the store that publishes them.
InsertPublish(t) ==
    /\ thr[t].pc = "ins_write"
    /\ LET th == thr[t]
           c == ProbeCell(tables[th.table], th.key, th.i)
       IN MapStep(t, [th EXCEPT !.pc = "ins_size"],
                  [tables EXCEPT ![th.table].m_buffer[c] =
                      [state |-> "Full", key |-> th.key, value |-> th.value]],
                  m_table)
    /\ UNCHANGED <<spscVars, mpmcVars, map_inserted, map_removeCalls, map_calls,
                   map_offered, map_present>>

\* Table::insert, line 136-137: m_size.fetch_add(1); return true
\* HashMap::insert, line 50-52: return true
InsertAddSize(t) ==
    /\ thr[t].pc = "ins_size"
    /\ LET th == thr[t]
       IN /\ MapStep(t, Returned(th, TRUE, NoValue),
                     [tables EXCEPT ![th.table].m_size = @ + 1], m_table)
          /\ map_inserted' = [map_inserted EXCEPT ![th.key] = @ \cup {th.value}]
          /\ map_present' = [map_present EXCEPT ![th.key] = th.value]
    /\ UNCHANGED <<spscVars, mpmcVars, map_removeCalls, map_calls, map_offered>>

\* HashMap::insert, line 54-57: Table::insert returned false;
\* if (table->m_size.load() > table->m_capacity / 2) resize(); and round the
\* while (true) loop again.
InsertCheckSize(t) ==
    /\ thr[t].pc = "ins_chk"
    /\ MapStep(t, [thr[t] EXCEPT !.pc = IF SizeExceedsHalf(tables[thr[t].table])
                                           THEN "rs_load" ELSE "ins_load"],
               tables, m_table)
    /\ UNCHANGED <<spscVars, mpmcVars, map_inserted, map_removeCalls, map_calls,
                   map_offered, map_present>>

\* resize, line 211-212: oldTable = m_table.load();
\* newTable = make_shared<Table>(oldTable->m_capacity * 2)
ResizeLoadTable(t) ==
    /\ thr[t].pc = "rs_load"
    /\ ResizedCapacity(tables[m_table].m_capacity) <= MaxCapacity
    /\ MapStep(t, [thr[t] EXCEPT !.pc = "rs_scan", !.oldTable = m_table,
                                 !.newTable = FreshTableId, !.scan = 0],
               [tables EXCEPT ![FreshTableId] =
                   NewTable(ResizedCapacity(tables[m_table].m_capacity))],
               m_table)
    /\ UNCHANGED <<spscVars, mpmcVars, map_inserted, map_removeCalls, map_calls,
                   map_offered, map_present>>

\* resize, line 214-218: the next cell of oldTable->m_buffer; a Full cell is
\* inserted into newTable.
ResizeScanCell(t) ==
    /\ thr[t].pc = "rs_scan"
    /\ LET th == thr[t]
           old == tables[th.oldTable]
           cell == old.m_buffer[th.scan]
           th2 == IF th.scan + 1 < old.m_capacity
                     THEN [th EXCEPT !.scan = th.scan + 1]
                     ELSE [th EXCEPT !.pc = "rs_store"]
       IN MapStep(t, th2,
                  IF cell.state = "Full"
                     THEN [tables EXCEPT ![th.newTable] =
                              TableInsert(tables[th.newTable], cell.key, cell.value)]
                     ELSE tables,
                  m_table)
    /\ UNCHANGED <<spscVars, mpmcVars, map_inserted, map_removeCalls, map_calls,
                   map_offered, map_present>>

\* resize, line 220-221: m_table.store(newTable); back to HashMap::insert's
\* loop.
ResizeStoreTable(t) ==
    /\ thr[t].pc = "rs_store"
    /\ MapStep(t, [thr[t] EXCEPT !.pc = "ins_load", !.oldTable = NoTableId,
                                 !.newTable = NoTableId, !.scan = 0],
               tables, thr[t].newTable)
    /\ UNCHANGED <<spscVars, mpmcVars, map_inserted, map_removeCalls, map_calls,
                   map_offered, map_present>>

\* A call of get(key) begins (line 66) and reaches its first access to shared
\* memory: HashMap::get, line 68: m_table.load(); Table::get, line 150.
\* expect: the values of the insert calls of key that have returned true,
\* when no remove(key) was invoked.
GetCall(t) ==
    /\ Resting(thr[t])
    /\ map_calls < MapMaxCalls
    /\ map_calls' = map_calls + 1
    /\ \E k \in Keys :
          MapStep(t, [IdleThread EXCEPT
                         !.pc = "get_state", !.op = "get", !.key = k,
                         !.table = m_table,
                         !.expect = IF map_removeCalls[k] THEN {}
                                    ELSE map_inserted[k],
                         !.was = map_present[k]],
                  tables, m_table)
    /\ UNCHANGED <<spscVars, mpmcVars, map_inserted, map_removeCalls, map_offered,
                   map_present>>

\* Mutant of CellIsEmpty: a tombstone ends the search like an Empty cell.
CellIsEmptyOrDeleted(cell) == cell.state \in {"Empty", "Deleted"}

\* Table::get, line 159, and Table::remove, line 182: the test that ends the
\* search, cell.state.load() == CellState::Empty
CellIsEmpty(cell) == cell.state = "Empty"

\* Table::get, line 152 and 164: the next probe of get's loop, or nullopt
\* after the last cell.
GetNextProbe(th, tbl) ==
    IF th.i + 1 < tbl.m_capacity
       THEN [th EXCEPT !.i = th.i + 1, !.pc = "get_state"]
       ELSE Returned(th, FALSE, NoValue)

\* Table::get, line 153-158: the first load of cell.state; a Full cell with
\* the key returns its value, another Full cell goes to the next probe.
GetLoadState(t) ==
    /\ thr[t].pc = "get_state"
    /\ LET th == thr[t]
           tbl == tables[th.table]
           cell == tbl.m_buffer[ProbeCell(tbl, th.key, th.i)]
       IN IF cell.state = "Full"
             THEN IF cell.key = th.key
                     THEN MapStep(t, Returned(th, FALSE, cell.value),
                                  tables, m_table)
                     ELSE MapStep(t, GetNextProbe(th, tbl), tables, m_table)
             ELSE MapStep(t, [th EXCEPT !.pc = "get_state2"], tables, m_table)
    /\ UNCHANGED <<spscVars, mpmcVars, map_inserted, map_removeCalls, map_calls,
                   map_offered, map_present>>

\* Table::get, line 159-161: the second load of cell.state; an Empty cell
\* returns nullopt, anything else goes to the next probe (line 164 returns
\* nullopt after the last cell).
GetLoadStateAgain(t) ==
    /\ thr[t].pc = "get_state2"
    /\ LET th == thr[t]
           tbl == tables[th.table]
           cell == tbl.m_buffer[ProbeCell(tbl, th.key, th.i)]
       IN IF CellIsEmpty(cell)
             THEN MapStep(t, Returned(th, FALSE, NoValue), tables, m_table)
             ELSE MapStep(t, GetNextProbe(th, tbl), tables, m_table)
    /\ UNCHANGED <<spscVars, mpmcVars, map_inserted, map_removeCalls, map_calls,
                   map_offered, map_present>>

\* Table::remove, line 171 and 187: the next probe of remove's loop, or
\* false after the last cell.
RemoveNextProbe(th, tbl) ==
    IF th.i + 1 < tbl.m_capacity
       THEN [th EXCEPT !.i = th.i + 1, !.pc = "rm_state"]
       ELSE Returned(th, FALSE, NoValue)

\* A call of remove(key) begins (line 77) and reaches its first access to
\* shared memory: HashMap::remove, line 79: m_table.load(); Table::remove,
\* line 169.
RemoveCall(t) ==
    /\ Resting(thr[t])
    /\ map_calls < MapMaxCalls
    /\ map_calls' = map_calls + 1
    /\ \E k \in Keys :
          /\ MapStep(t, [IdleThread EXCEPT !.pc = "rm_state", !.op = "remove",
                                           !.key = k, !.table = m_table,
                                           !.was = map_present[k]],
                     tables, m_table)
          /\ map_removeCalls' = [map_removeCalls EXCEPT ![k] = TRUE]
    /\ UNCHANGED <<spscVars, mpmcVars, map_inserted, map_offered,
                   map_present>>

\* A test that takes any Full cell for the cell of the key.
RemoveSeesAnyFull(cell, key) == cell.state = "Full"

\* Table::remove, line 175: the test that finds the cell of the key.
RemoveSeesKey(cell, key) == cell.state = "Full" /\ cell.key = key

\* Table::remove, line 175: cell.state.load() == Full && cell.key == key
RemoveLoadState(t) ==
    /\ thr[t].pc = "rm_state"
    /\ LET th == thr[t]
           tbl == tables[th.table]
           cell == tbl.m_buffer[ProbeCell(tbl, th.key, th.i)]
       IN MapStep(t, [th EXCEPT !.pc = IF RemoveSeesKey(cell, th.key)
                                          THEN "rm_cas" ELSE "rm_chk"],
                  tables, m_table)
    /\ UNCHANGED <<spscVars, mpmcVars, map_inserted, map_removeCalls, map_calls,
                   map_offered, map_present>>

\* Mutant of RemoveCasSucceeds: the cell is marked Deleted by a plain store,
\* whatever state it is in.
RemoveCasBlind(cell) == TRUE

\* Table::remove, line 176: compare_exchange_strong(expected = Full, Deleted)
\* succeeds only on a cell that is still Full.
RemoveCasSucceeds(cell) == cell.state = "Full"

\* Table::remove, line 176: compare_exchange_strong Full -> Deleted
RemoveCas(t) ==
    /\ thr[t].pc = "rm_cas"
    /\ LET th == thr[t]
           tbl == tables[th.table]
           c == ProbeCell(tbl, th.key, th.i)
       IN IF RemoveCasSucceeds(tbl.m_buffer[c])
             THEN MapStep(t, [th EXCEPT !.pc = "rm_dec"],
                          [tables EXCEPT ![th.table].m_buffer[c].state = "Deleted"],
                          m_table)
             ELSE MapStep(t, [th EXCEPT !.pc = "rm_chk"], tables, m_table)
    /\ UNCHANGED <<spscVars, mpmcVars, map_inserted, map_removeCalls, map_calls,
                   map_offered, map_present>>

\* Table::remove, line 177-178: m_size.fetch_sub(1); return true
RemoveSubSize(t) ==
    /\ thr[t].pc = "rm_dec"
    /\ MapStep(t, Returned(thr[t], TRUE, NoValue),
               [tables EXCEPT ![thr[t].table].m_size = @ - 1], m_table)
    /\ map_present' = [map_present EXCEPT ![thr[t].key] = NoValue]
    /\ UNCHANGED <<spscVars, mpmcVars, map_inserted, map_removeCalls, map_calls,
                   map_offered>>

\* Table::remove, line 182-184: cell.state.load() == Empty returns false;
\* otherwise the next probe (line 187 returns false after the last cell).
RemoveCheckEmpty(t) ==
    /\ thr[t].pc = "rm_chk"
    /\ LET th == thr[t]
           tbl == tables[th.table]
           cell == tbl.m_buffer[ProbeCell(tbl, th.key, th.i)]
       IN IF CellIsEmpty(cell)
             THEN MapStep(t, Returned(th, FALSE, NoValue), tables, m_table)
             ELSE MapStep(t, RemoveNextProbe(th, tbl), tables, m_table)
    /\ UNCHANGED <<spscVars, mpmcVars, map_inserted, map_removeCalls, map_calls,
                   map_offered, map_present>>

\* The steps of thread t inside a call of insert, resize() included.
InsertContinue(t) ==
    \/ InsertLoadTable(t)
    \/ InsertProbe(t)
    \/ InsertPublish(t)
    \/ InsertAddSize(t)
    \/ InsertCheckSize(t)
    \/ ResizeLoadTable(t)
    \/ ResizeScanCell(t)
    \/ ResizeStoreTable(t)

\* The steps of thread t inside a call of get.
GetContinue(t) ==
    \/ GetLoadState(t)
    \/ GetLoadStateAgain(t)

\* The steps of thread t inside a call of remove.
RemoveContinue(t) ==
    \/ RemoveLoadState(t)
    \/ RemoveCas(t)
    \/ RemoveSubSize(t)
    \/ RemoveCheckEmpty(t)

\* The steps of thread t inside a call.
MapContinue(t) ==
    \/ InsertContinue(t)
    \/ GetContinue(t)
    \/ RemoveContinue(t)

\* A thread that calls insert, get and remove.
MapThread(t) ==
    \/ InsertCall(t)
    \/ GetCall(t)
    \/ RemoveCall(t)
    \/ MapContinue(t)

\* A thread that calls insert and get, and never remove.
MapGrowThread(t) ==
    \/ InsertCall(t)
    \/ GetCall(t)
    \/ InsertContinue(t)
    \/ GetContinue(t)

\* Threads that insert and get concurrently.
MapNextGrow == \E t \in Threads : MapGrowThread(t)

\* One thread that inserts while another thread removes.
Inserter == "t1"
Remover == "t2"

MapNextChurn ==
    \/ InsertCall(Inserter)
    \/ InsertContinue(Inserter)
    \/ RemoveCall(Remover)
    \/ RemoveContinue(Remover)

\* Threads that insert one at a time and remove concurrently: a call of
\* insert begins while every other thread rests, and a call of remove begins
\* while no other thread is inside insert.
QuietInsertCall(t) ==
    /\ \A u \in Threads \ {t} : Resting(thr[u])
    /\ InsertCall(t)

QuietRemoveCall(t) ==
    /\ \A u \in Threads \ {t} : Resting(thr[u]) \/ thr[u].op # "insert"
    /\ RemoveCall(t)

MapNextRemovers ==
    \E t \in Threads :
       \/ QuietInsertCall(t)
       \/ InsertContinue(t)
       \/ QuietRemoveCall(t)
       \/ RemoveContinue(t)

\* The thread of the runs in which one thread uses the map alone.
SoloThread == "t1"

MapNextSolo == MapThread(SoloThread)

(***************************************************************************)
(*                            Specifications                               *)
(***************************************************************************)

vars == <<spscVars, mpmcVars, mapVars>>

Init == SpscInit /\ MpmcInit /\ MapInit

\* Spsc::Queue with its one producer and its one consumer.
SpecSpsc == Init /\ [][SpscNext]_vars

\* Mpmc::Queue with its producers and consumers.
SpecMpmc == Init /\ [][MpmcNext]_vars

\* Mpmc::Queue with one producer, one consumer and a thread that calls
\* size().
SpecMpmcSize == Init /\ [][MpmcNextSize]_vars

\* Mpmc::HashMap with threads that insert and get concurrently.
SpecMapGrow == Init /\ [][MapNextGrow]_vars

\* Mpmc::HashMap with one thread that inserts and one that removes.
SpecMapChurn == Init /\ [][MapNextChurn]_vars

\* Mpmc::HashMap with threads that remove concurrently and insert one at a
\* time.
SpecMapRemovers == Init /\ [][MapNextRemovers]_vars

\* Mpmc::HashMap used by one thread; a call that has begun keeps running
\* (a running thread is scheduled again and again), a new call need not
\* begin.
FairSpecMapSolo == Init /\ [][MapNextSolo]_vars /\ WF_vars(MapContinue(SoloThread))

(***************************************************************************)
(*                     Properties of Mpmc::Queue                           *)
(***************************************************************************)

\* The value a consumer that has won its CAS is about to return.
MpmcClaimed ==
    {mpmc_data[MpmcWrap(cons[c].pos)] : c \in {d \in Consumers : cons[d].pc = "read"}}
    \cup {cons[c].result : c \in {d \in Consumers : cons[d].pc = "publish"}}

\* Slots that hold a published value no consumer has claimed yet.
MpmcUnclaimedSlots == MpmcUnclaimedFrom(m_dequeuePos)

MpmcStored == {mpmc_data[i] : i \in MpmcUnclaimedSlots}

MpmcQuiescent ==
    /\ \A p \in Producers : prod[p].pc = "idle"
    /\ \A c \in Consumers : cons[c].pc = "idle"

MpmcNoDequeueYet == \A c \in Consumers : ~mpmc_deqCalls[c]

\* C1: no loss and no duplication.  No value is returned by two dequeues;
\* every returned value is one whose enqueue returned true; every value whose
\* enqueue returned true is in exactly one place: returned, claimed by one
\* dequeue in flight, or stored in one published slot; so once the queue is
\* drained the dequeued values are exactly the values produced, once each.
MpmcNoLossNoDuplication ==
    /\ \A i, j \in DOMAIN mpmc_deqLog : i # j => mpmc_deqLog[i] # mpmc_deqLog[j]
    /\ Range(mpmc_deqLog) \subseteq mpmc_enqDone
    /\ mpmc_enqDone = Range(mpmc_deqLog) \cup MpmcClaimed \cup MpmcStored
    /\ Cardinality(mpmc_enqDone) =
          Len(mpmc_deqLog) + Cardinality(MpmcUnclaimedSlots)
          + Cardinality({c \in Consumers : cons[c].pc \in {"read", "publish"}})
    /\ (MpmcQuiescent /\ m_dequeuePos = m_enqueuePos)
          => Range(mpmc_deqLog) = mpmc_enqDone

\* C1 witness: every value was produced and the queue is drained, the values
\* having been returned out of their numeric order.
MpmcDrainedWitness ==
    /\ MpmcQuiescent
    /\ m_dequeuePos = m_enqueuePos
    /\ Len(mpmc_deqLog) = MpmcMaxValues
    /\ mpmc_enqDone = MpmcValues
    /\ \E i \in DOMAIN mpmc_deqLog : i # mpmc_deqLog[i]

\* C3: FIFO across all producers.  If enqueue(a) returned true before
\* enqueue(b) was invoked and b has been returned, then a has been returned
\* or is held by a dequeue in flight; and when a single consumer has made
\* every dequeue call, a is returned before b.
MpmcFifo ==
    /\ \A j \in DOMAIN mpmc_deqLog : \A a \in mpmc_before[mpmc_deqLog[j]] :
          a \in Range(mpmc_deqLog) \cup MpmcClaimed
    /\ Cardinality({c \in Consumers : mpmc_deqCalls[c]}) <= 1
          => \A i, j \in DOMAIN mpmc_deqLog :
                 i < j => mpmc_deqLog[j] \notin mpmc_before[mpmc_deqLog[i]]

\* C3 witness: a single consumer has returned more values than the queue has
\* slots, the last of them enqueued after the first had been dequeued.
MpmcFifoWitness ==
    /\ Cardinality({c \in Consumers : mpmc_deqCalls[c]}) = 1
    /\ Len(mpmc_deqLog) > MpmcCapacity
    /\ mpmc_before[mpmc_deqLog[Len(mpmc_deqLog)]] # {}

\* C5: capacity bound.  While no dequeue has been invoked: at most Capacity
\* enqueues return true; once Capacity enqueues have returned true the queue
\* reports full and not empty; an enqueue call invoked after that does not
\* go round its loop, changes no cursor, no sequence and no stored item, and
\* returns false; and an enqueue call running alone returns false only then.
MpmcCapacityInv ==
    MpmcNoDequeueYet =>
       /\ Cardinality(mpmc_enqDone) <= MpmcCapacity
       /\ Cardinality(mpmc_enqDone) = MpmcCapacity => MpmcFull /\ ~MpmcEmpty

MpmcRejectStep(p) ==
    prod[p].pc = "seq" /\ prod'[p].pc = "idle"

MpmcCapacityAct ==
    \A p \in Producers :
       /\ ( /\ MpmcNoDequeueYet
            /\ prod[p].pc # "idle"
            /\ Cardinality(mpmc_before[prod[p].item]) = MpmcCapacity
            /\ prod'[p] # prod[p] )
          => /\ MpmcRejectStep(p)
             /\ ~prod[p].retried
             /\ UNCHANGED <<m_enqueuePos, m_dequeuePos, mpmc_sequence,
                            mpmc_data, mpmc_enqDone>>
       /\ ( /\ MpmcNoDequeueYet
            /\ MpmcRejectStep(p)
            /\ \A q \in Producers \ {p} : prod[q].pc = "idle" )
          => Cardinality(mpmc_enqDone) = MpmcCapacity

MpmcCapacityBound == []MpmcCapacityInv /\ [][MpmcCapacityAct]_vars

\* C5 witness: with no dequeue invoked, Capacity enqueues returned true and
\* a further enqueue call, invoked after them, is about to return.
MpmcCapacityWitness ==
    /\ MpmcNoDequeueYet
    /\ Cardinality(mpmc_enqDone) = MpmcCapacity
    /\ \E p \in Producers :
          /\ prod[p].pc = "seq"
          /\ Cardinality(mpmc_before[prod[p].item]) = MpmcCapacity

(***************************************************************************)
(*                     Properties of Spsc::Queue                           *)
(***************************************************************************)

SpscQuiescent == sp.pc = "idle" /\ sc.pc = "idle"

\* C2: FIFO.  The values returned by dequeue are, in order, a prefix of the
\* values whose enqueue returned true; with both threads at rest and the
\* queue empty, every accepted value has been returned.
SpscFifo ==
    /\ IsPrefix(spsc_returned, spsc_accepted)
    /\ (SpscQuiescent /\ SpscEmpty) => spsc_returned = spsc_accepted

\* C2 witness: more values than the buffer has slots have been returned,
\* the consumer having at some time found the queue empty.
SpscFifoWitness ==
    /\ Len(spsc_returned) > SpscCapacity
    /\ spsc_deqCalls > Len(spsc_returned)
    /\ SpscQuiescent

\* C4: capacity bound.  While no dequeue has been invoked: exactly the
\* first Capacity - 1 enqueue calls return true and every further one
\* returns false; head stays 0, tail counts the accepted values and the
\* slots hold them in order, whatever number of calls were rejected; after
\* Capacity - 1 accepted values the queue reports full and not empty.  The
\* first Capacity - 1 values dequeued are those accepted values, in order.
SpscCapacityBound ==
    /\ spsc_deqCalls = 0 =>
          /\ \A i \in DOMAIN spsc_results :
                spsc_results[i] = (i <= SpscCapacity - 1)
          /\ m_head = 0
          /\ m_tail = Len(spsc_accepted)
          /\ \A i \in DOMAIN spsc_accepted : spsc_buffer[i - 1] = spsc_accepted[i]
          /\ Len(spsc_accepted) = SpscCapacity - 1 => SpscFull /\ ~SpscEmpty
    /\ \A i \in DOMAIN spsc_returned :
          i <= SpscCapacity - 1 => spsc_returned[i] = spsc_accepted[i]

\* C4 witness: the queue was filled and an enqueue rejected before the first
\* dequeue call, and the accepted values have since been drained.
SpscCapacityWitness ==
    /\ Len(spsc_results) > SpscCapacity - 1
    /\ \A i \in 1..SpscCapacity : spsc_results[i] = (i <= SpscCapacity - 1)
    /\ Len(spsc_returned) = SpscCapacity - 1
    /\ spsc_deqCalls = SpscCapacity - 1
    /\ SpscEmpty

(***************************************************************************)
(*                    Properties of Mpmc::HashMap                          *)
(***************************************************************************)

\* Thread t is inside a call of insert.
InInsert(t) == thr[t].op = "insert" /\ ~Resting(thr[t])

\* Thread t is inside a call of insert whose key was present when the call
\* began.
InDuplicateInsert(t) == InInsert(t) /\ thr[t].expect # {}

\* Thread t is about to run resize() for a capacity the model does not follow
\* (ResizeLoadTable's bound): the run is cut here, the code would go on.
ResizeBeyondBound(t) ==
    /\ thr[t].pc = "rs_load"
    /\ ResizedCapacity(MapCapacity) > MaxCapacity

\* The keys with an insert call that has returned true.
MapInsertedKeys == {k \in Keys : map_inserted[k] # {}}

\* No remove call was ever invoked.
MapNoRemoveCalls == \A k \in Keys : ~map_removeCalls[k]

\* C6: a call insert(k, v2) made by a thread that uses the map alone, on a
\* map in which k is present, returns false (or reaches the capacity the
\* model stops at).
MapDuplicateInsertReturnsFalse ==
    InDuplicateInsert(SoloThread)
       ~> \/ /\ thr[SoloThread].pc = "done"
             /\ thr[SoloThread].op = "insert"
             /\ ~thr[SoloThread].ok
          \/ ResizeBeyondBound(SoloThread)

\* C7: once one thread has sequentially inserted InitialCapacity / 2 + 1
\* distinct keys into a fresh map (no remove), capacity() is twice the
\* initial capacity.
MapGrowsAboveHalf ==
    ( /\ Resting(thr[SoloThread])
      /\ MapNoRemoveCalls
      /\ Cardinality(MapInsertedKeys) = InitialCapacity \div 2 + 1 )
       => MapCapacity = ResizedCapacity(InitialCapacity)

\* C8: a get(k) invoked after some insert(k, v) has returned true, with no
\* remove(k) invoked, finds k: it does not return nullopt.
MapGetFindsInserted ==
    \A t \in Threads :
       ( /\ thr[t].pc = "done"
         /\ thr[t].op = "get"
         /\ thr[t].expect # {} )
          => thr[t].got # NoValue

\* C9: the capacity of the current Table never decreases from one state to
\* the next.
MapCapacityNeverShrinks ==
    [][tables'[m_table'].m_capacity >= tables[m_table].m_capacity]_vars

\* C10: a call of insert made by a thread that uses the map alone returns
\* (or reaches the capacity the model stops at).
MapInsertTerminates ==
    InInsert(SoloThread)
       ~> \/ Resting(thr[SoloThread])
          \/ ResizeBeyondBound(SoloThread)

\* Thread t is inside a call of insert whose key was absent when the call
\* began: no entry is left for it by the calls that have returned.
InAbsentInsert(t) == InInsert(t) /\ thr[t].was = NoValue

\* C11: a call insert(k, v) made by a thread that uses the map alone, on a
\* map where k is absent, returns true (or reaches the capacity the model
\* stops at).
MapInsertOfAbsentKeyReturnsTrue ==
    InAbsentInsert(SoloThread)
       ~> \/ /\ thr[SoloThread].pc = "done"
             /\ thr[SoloThread].op = "insert"
             /\ thr[SoloThread].ok
          \/ ResizeBeyondBound(SoloThread)

\* The call the thread that uses the map alone has returned from.
SoloReturned(op) ==
    thr[SoloThread].pc = "done" /\ thr[SoloThread].op = op

\* The results of remove and of the get that follows it, one thread: remove
\* of a present key returns true and the key is then absent, remove of an
\* absent key returns false, and get of an absent key returns nullopt.
MapRemoveResults ==
    /\ SoloReturned("remove") =>
          IF thr[SoloThread].was # NoValue
             THEN /\ thr[SoloThread].ok
                  /\ MapGet(thr[SoloThread].key) = NoValue
                  /\ map_present[thr[SoloThread].key] = NoValue
             ELSE ~thr[SoloThread].ok
    /\ (SoloReturned("get") /\ thr[SoloThread].was = NoValue) =>
          thr[SoloThread].got = NoValue

\* A step of a remove call whose key is absent changes no Table: the cell
\* states, keys and values and the size counter stay what they were.
MapRemoveAbsentStep ==
    ( /\ thr'[SoloThread].op = "remove"
      /\ thr'[SoloThread].was = NoValue )
       => /\ m_table' = m_table
          /\ tables'[m_table'] = tables[m_table]

\* C12: with one thread, remove(k) of a present key returns true and get(k)
\* is then absent; remove(k) of an absent key returns false and leaves every
\* cell state and the size counter unchanged.
MapRemoveAbsence == []MapRemoveResults /\ [][MapRemoveAbsentStep]_vars

\* remove(k) has returned true for a key that was present, and the key is
\* gone.
MapRemoveWitness ==
    /\ SoloReturned("remove")
    /\ thr[SoloThread].was # NoValue
    /\ thr[SoloThread].ok
    /\ MapGet(thr[SoloThread].key) = NoValue

\* C13: in every state reached by concurrent insert and remove calls, size(),
\* the size counter of the current Table read as an unsigned integer, is at
\* most capacity().
MapSizeWithinCapacity == MapSizeUnsigned <= MapCapacity

(***************************************************************************)
(*                 Properties of the size() accessors                      *)
(***************************************************************************)

\* Spsc size() masks its difference: whatever two cursor values it loaded,
\* the result is at most the capacity.
SpscSizeMasked ==
    \A tail \in SpscSlots, head \in SpscSlots :
       SpscSizeOf(tail, head) <= SpscCapacity

\* C14 as stated: every value a size() call returns is at most capacity(),
\* whatever the other threads did between its two loads.
SizeWithinCapacity ==
    /\ SpscSizeMasked
    /\ mpmc_sizer.pc = "done" => mpmc_sizer.result <= MpmcCapacity

\* C14, amended: Spsc size() is always at most capacity(); an Mpmc size()
\* call between whose two loads no cursor moved returns at most capacity().
SizeWithinCapacityWhenStill ==
    /\ SpscSizeMasked
    /\ (mpmc_sizer.pc = "done" /\ mpmc_sizer.still) =>
          mpmc_sizer.result <= MpmcCapacity

\* A size() call with no cursor movement between its loads has returned the
\* capacity: the queue was full.
SizeStillWitness ==
    /\ mpmc_sizer.pc = "done"
    /\ mpmc_sizer.still
    /\ mpmc_sizer.result = MpmcCapacity

(***************************************************************************)
(*                  More properties of Mpmc::Queue                         *)
(***************************************************************************)

\* The step in which the dequeue call of consumer c returns nullopt.
MpmcDequeueReturnsAbsent(c) == cons[c].pc = "seq" /\ cons'[c].pc = "idle"

\* C15: a dequeue call returns nullopt only if, at some moment during the
\* call, no value whose enqueue has returned true was waiting to be taken.
MpmcAbsentOnlyWhenEmpty ==
    [][\A c \in Consumers : MpmcDequeueReturnsAbsent(c) => cons[c].sawEmpty]_vars

\* The threads that have won the cursor CAS for a position of slot i and
\* have not yet stored the slot's new sequence.
MpmcSlotProducers(i) ==
    {p \in Producers : /\ prod[p].pc \in {"write", "publish"}
                       /\ MpmcWrap(prod[p].pos) = i}

MpmcSlotConsumers(i) ==
    {c \in Consumers : /\ cons[c].pc \in {"read", "publish"}
                       /\ MpmcWrap(cons[c].pos) = i}

\* C18: slot exclusivity.  For every slot at most one thread, producer or
\* consumer, is between its successful cursor CAS and its sequence store;
\* until that store the slot's sequence is the one the owner found (pos for
\* a producer, pos + 1 for a consumer), so no other thread can claim it.
MpmcSlotExclusive ==
    \A i \in MpmcSlots :
       /\ Cardinality(MpmcSlotProducers(i)) + Cardinality(MpmcSlotConsumers(i)) <= 1
       /\ \A p \in MpmcSlotProducers(i) : mpmc_sequence[i] = prod[p].pos
       /\ \A c \in MpmcSlotConsumers(i) : mpmc_sequence[i] = cons[c].pos + 1

\* C18 witness: a producer owns a slot and is about to write it, while the
\* other producer is at its CAS for the same position, a consumer has
\* loaded that position too, and the other consumer owns the other slot.
MpmcSlotExclusiveWitness ==
    \E p \in Producers, q \in Producers, c \in Consumers :
       /\ p # q
       /\ prod[p].pc = "write"
       /\ \E d \in Consumers : cons[d].pc = "read" /\ cons[d].pos + 1 = prod[p].pos
       /\ prod[q].pc = "cas"
       /\ prod[q].pos = prod[p].pos
       /\ cons[c].pc = "seq"
       /\ cons[c].pos = prod[p].pos

\* The logical position slot i stands at: its sequence is that position
\* (writable) or that position plus one (readable).
MpmcSlotPos(i) ==
    IF MpmcWrap(mpmc_sequence[i]) = i THEN mpmc_sequence[i]
                                      ELSE mpmc_sequence[i] - 1

MpmcWritable(i) == mpmc_sequence[i] = MpmcSlotPos(i)
MpmcReadable(i) == mpmc_sequence[i] = MpmcSlotPos(i) + 1

\* Every slot is writable or readable at a position of its own residue; a
\* writable slot stands at a position no producer has claimed or that its
\* owner is still writing, less than one lap ahead of the dequeue cursor; a
\* readable slot stands at a claimed position that no consumer has
\* released.
MpmcSequenceInv ==
    \A i \in MpmcSlots :
       LET pos == MpmcSlotPos(i) IN
          /\ MpmcWrap(pos) = i
          /\ MpmcWritable(i) \/ MpmcReadable(i)
          /\ MpmcWritable(i) =>
                /\ pos >= m_enqueuePos
                      \/ \E p \in MpmcSlotProducers(i) : prod[p].pos = pos
                /\ pos < m_dequeuePos + MpmcCapacity
          /\ MpmcReadable(i) =>
                /\ pos < m_enqueuePos
                /\ MpmcSlotProducers(i) = {}
                /\ pos >= m_dequeuePos
                      \/ \E c \in MpmcSlotConsumers(i) : cons[c].pos = pos

\* A step that changes the sequence of slot i takes it from writable at pos
\* to readable at pos, or from readable at pos to writable at
\* pos + capacity; the sequence never decreases.
MpmcSequenceStep ==
    \A i \in MpmcSlots :
       /\ mpmc_sequence'[i] >= mpmc_sequence[i]
       /\ mpmc_sequence'[i] # mpmc_sequence[i] =>
             \/ MpmcWritable(i) /\ mpmc_sequence'[i] = MpmcSlotPos(i) + 1
             \/ MpmcReadable(i) /\ mpmc_sequence'[i] = MpmcSlotPos(i) + MpmcCapacity

\* C19: the sequence of slot i starts at i, is always pos (writable) or
\* pos + 1 (readable) for a position pos congruent to i modulo the
\* capacity, alternates writable(pos) -> readable(pos) ->
\* writable(pos + capacity), and never decreases.
MpmcSequenceProtocol ==
    /\ \A i \in MpmcSlots : mpmc_sequence[i] = i
    /\ []MpmcSequenceInv
    /\ [][MpmcSequenceStep]_vars

\* C19 witness: slot 0 has gone round once and is readable at position
\* capacity, slot 1 has been consumed and is writable at capacity + 1, and
\* every thread is at rest.
MpmcSequenceWitness ==
    /\ MpmcQuiescent
    /\ mpmc_sequence[0] = MpmcCapacity + 1
    /\ MpmcReadable(0)
    /\ mpmc_sequence[1] = MpmcCapacity + 1
    /\ MpmcWritable(1)

(***************************************************************************)
(*                 The size accessors of the two queues                    *)
(***************************************************************************)

\* The two queues are separate objects that share no state, so a step of one
\* leaves the other as it is and every state either queue can reach is
\* reached while the other is fresh: a run uses the Mpmc queue, with its
\* producers and consumers, or the Spsc queue.
QueuesNext ==
    \/ SpscInit /\ MpmcNext
    \/ MpmcInit /\ SpscNext

SpecQueues == Init /\ [][QueuesNext]_vars

\* C16: with no enqueue and no dequeue in flight, size() of either queue is
\* the number of enqueues that returned true minus the number of dequeues
\* that returned a value; capacity() is the template Capacity.
QueueSizeAtRest ==
    /\ SpscQuiescent =>
          SpscSizeOf(m_tail, m_head) = Len(spsc_accepted) - Len(spsc_returned)
    /\ MpmcQuiescent =>
          MpmcSizeOf(m_enqueuePos, m_dequeuePos) =
             Cardinality(mpmc_enqDone) - Len(mpmc_deqLog)
    /\ SpscCapacityCall = SpscCapacity
    /\ MpmcCapacityCall = MpmcCapacity

\* C16 witness: the Spsc queue is at rest and holds two values, its tail
\* having wrapped round to below the head; the Mpmc queue is fresh and its
\* size() is 0.
QueueSizeAtRestWitness ==
    /\ SpscQuiescent
    /\ m_tail < m_head
    /\ Len(spsc_accepted) > SpscCapacity
    /\ SpscSizeOf(m_tail, m_head) = 2
    /\ MpmcQuiescent
    /\ mpmc_issued = 0
    /\ MpmcSizeOf(m_enqueuePos, m_dequeuePos) = 0

(***************************************************************************)
(*                  More properties of Mpmc::HashMap                       *)
(***************************************************************************)

\* The indices of the Full cells of Table tbl that hold key.
FullCellsOf(tbl, key) ==
    {i \in DOMAIN tbl.m_buffer :
        tbl.m_buffer[i].state = "Full" /\ tbl.m_buffer[i].key = key}

\* C17: in every Table, the current one and those threads still hold or are
\* building, each key is in at most one Full cell.
MapKeyUnique ==
    \A id \in TableIds : \A k \in Keys :
       Cardinality(FullCellsOf(tables[id], k)) <= 1

\* The cell thread t is probing, and whether it is the last of its Table.
ProbedCell(t) ==
    tables[thr[t].table].m_buffer[
       ProbeCell(tables[thr[t].table], thr[t].key, thr[t].i)]

AtLastProbe(t) == thr[t].i = tables[thr[t].table].m_capacity - 1

\* The step in which the get or remove call of thread t returns not-found.
ReturnsNotFound(t) ==
    /\ thr[t].pc \in {"get_state", "get_state2", "rm_chk"}
    /\ thr'[t].pc = "done"
    /\ thr'[t].got = NoValue
    /\ ~thr'[t].ok

\* One thread: get of a present key returns its value and remove of a
\* present key returns true, whatever tombstones lie before the key on its
\* probe chain.
MapFindsPastTombstones ==
    /\ (SoloReturned("get") /\ thr[SoloThread].was # NoValue) =>
          thr[SoloThread].got = thr[SoloThread].was
    /\ (SoloReturned("remove") /\ thr[SoloThread].was # NoValue) =>
          thr[SoloThread].ok

\* get and remove return not-found only at an Empty cell or at the last of
\* the capacity cells of the probe chain.
MapNotFoundStep ==
    ReturnsNotFound(SoloThread) =>
       ProbedCell(SoloThread).state = "Empty" \/ AtLastProbe(SoloThread)

\* C20: tombstones keep probe chains intact.  With one thread, get(k2)
\* returns the value of a present key k2 and remove(k2) returns true also
\* when a key before it on its probe chain has been removed; get and remove
\* stop with not-found only at an Empty cell or after the last cell.
MapTombstonesKeepChains == []MapFindsPastTombstones /\ [][MapNotFoundStep]_vars

\* C20 witness: get has returned the value of a key whose first probe cell,
\* in the current Table, is a tombstone.
MapTombstoneWitness ==
    /\ SoloReturned("get")
    /\ thr[SoloThread].got # NoValue
    /\ thr[SoloThread].got = thr[SoloThread].was
    /\ tables[m_table].m_buffer[
          ProbeCell(tables[m_table], thr[SoloThread].key, 0)].state = "Deleted"

\* The Full cells of the current Table.
MapFullCells ==
    {i \in DOMAIN tables[m_table].m_buffer :
        tables[m_table].m_buffer[i].state = "Full"}

\* The threads whose remove call of key, begun while the key was present
\* with value v, has won: they are about to decrement the size counter or
\* have returned true.
RemoveWinners(key, v) ==
    {t \in Threads : /\ thr[t].op = "remove"
                     /\ thr[t].key = key
                     /\ thr[t].was = v
                     /\ thr[t].pc = "rm_dec" \/ (thr[t].pc = "done" /\ thr[t].ok)}

\* The threads whose remove call of key, begun while the key was present
\* with value v, has returned.
RemoveReturned(key, v) ==
    {t \in Threads : /\ thr[t].op = "remove"
                     /\ thr[t].key = key
                     /\ thr[t].was = v
                     /\ thr[t].pc = "done"}

\* C21: concurrent remove, with no insert running beside it.  Of the calls
\* remove(k) begun while k was present in one Full cell at most one wins the
\* cell; once they have all returned exactly one has returned true; and with
\* every thread at rest the size counter is the number of Full cells: each
\* winning remove has decremented it once.
MapConcurrentRemove ==
    /\ \A k \in Keys : \A v \in Values :
          /\ Cardinality(RemoveWinners(k, v)) <= 1
          /\ RemoveReturned(k, v) = Threads =>
                Cardinality(RemoveWinners(k, v)) = 1
    /\ (\A t \in Threads : Resting(thr[t])) =>
          MapSize = Cardinality(MapFullCells)

\* C21 witness: both threads called remove of the same key while it was
\* present, both have returned, and the size counter, 2 before, is 1.
MapConcurrentRemoveWitness ==
    /\ \E k \in Keys : \E v \in Values : RemoveReturned(k, v) = Threads
    /\ MapSize = 1
    /\ Cardinality(MapFullCells) = 1

(***************************************************************************)
(*                  Publication order of Spsc::Queue                       *)
(***************************************************************************)

\* The value the next successful dequeue has to return: the oldest accepted
\* value not yet returned.
SpscNextDue == spsc_accepted[Len(spsc_returned) + 1]

\* The payload is in its slot when the tail that covers it is visible:
\* whenever tail != head, and whenever the consumer has observed that and
\* is about to read, the slot at head holds the oldest value not yet
\* returned.
SpscPublishedPayload ==
    /\ m_tail # m_head =>
          /\ Len(spsc_returned) < Len(spsc_accepted)
          /\ spsc_buffer[m_head] = SpscNextDue
    /\ sc.pc = "read" =>
          /\ sc.currHead = m_head
          /\ Len(spsc_returned) < Len(spsc_accepted)
          /\ spsc_buffer[sc.currHead] = SpscNextDue

\* The producer writes only a slot the consumer has finished with: from the
\* moment it has decided to write until it stores the tail, its slot holds
\* no accepted value that is still to be returned (before the write it holds
\* T{} or a value already returned), and the consumer is not reading it.
SpscReleasedSlot ==
    /\ sp.pc = "write" =>
          spsc_buffer[sp.currTail] \in {DefaultT} \cup Range(spsc_returned)
    /\ sp.pc \in {"write", "store"} =>
          /\ sc.pc \in {"read", "store"} => sc.currHead # sp.currTail
          /\ \A n \in (Len(spsc_returned) + 1)..Len(spsc_accepted) :
                SpscWrap(n - 1) # sp.currTail

\* C22: publication order.  In every interleaving of the producer and the
\* consumer, a consumer that observes tail != head finds at index head the
\* value enqueued for it, and the producer never writes a slot the consumer
\* has not finished reading.
SpscPublicationOrder == SpscPublishedPayload /\ SpscReleasedSlot

\* C22 witness: the producer is about to overwrite a slot whose former
\* value the consumer has returned, while the consumer, having seen
\* tail != head, is reading another slot.
SpscPublicationWitness ==
    /\ sp.pc = "write"
    /\ spsc_buffer[sp.currTail] \in Range(spsc_returned)
    /\ sc.pc = "read"

(***************************************************************************)
(*                   The cursors of Mpmc::Queue                            *)
(***************************************************************************)

\* The dequeue cursor never overtakes the enqueue cursor and the enqueue
\* cursor is never more than capacity positions ahead, so the unsigned
\* difference empty(), full() and size() compute does not wrap.
MpmcCursorInv ==
    /\ 0 <= m_enqueuePos - m_dequeuePos
    /\ m_enqueuePos - m_dequeuePos <= MpmcCapacity
    /\ MpmcSizeOf(m_enqueuePos, m_dequeuePos) = m_enqueuePos - m_dequeuePos
    /\ MpmcEmpty <=> m_enqueuePos = m_dequeuePos
    /\ MpmcFull <=> m_enqueuePos = m_dequeuePos + MpmcCapacity

\* The step in which a producer's (a consumer's) CAS on its cursor succeeds.
MpmcEnqueueCasWon == \E p \in Producers : prod[p].pc = "cas" /\ prod'[p].pc = "write"
MpmcDequeueCasWon == \E c \in Consumers : cons[c].pc = "cas" /\ cons'[c].pc = "read"

\* A cursor moves only in a step whose CAS succeeds, and then by exactly 1.
MpmcCursorStep ==
    /\ m_enqueuePos' = IF MpmcEnqueueCasWon THEN m_enqueuePos + 1 ELSE m_enqueuePos
    /\ m_dequeuePos' = IF MpmcDequeueCasWon THEN m_dequeuePos + 1 ELSE m_dequeuePos

\* C23: in every reachable state 0 <= enqueuePos - dequeuePos <= capacity,
\* and each cursor increases by exactly 1 per successful CAS and never
\* otherwise.
MpmcCursorBounds == []MpmcCursorInv /\ [][MpmcCursorStep]_vars

\* C23 witness: the queue is full on its second lap - the enqueue cursor is
\* capacity positions ahead of a dequeue cursor that has moved - while a
\* consumer stands at its CAS.
MpmcCursorWitness ==
    /\ m_dequeuePos > 0
    /\ m_enqueuePos = m_dequeuePos + MpmcCapacity
    /\ \E c \in Consumers : cons[c].pc = "cas"

=============================================================================
